---- MODULE Spec2Model ----
(***************************************************************************)
(* Model of netbox_onboarding/onboard.py: the onboarding pipeline of one   *)
(* OnboardingTask (NetdevKeeper.get_required_info followed by              *)
(* NetboxKeeper.ensure_device) against the NetBox inventory.               *)
(*                                                                         *)
(* Strings whose content the code transforms (vendor, model) are sequences *)
(* of one-character strings; all other names are atomic strings.  Python's *)
(* None is the string "None" (NoneStr for a character sequence, 0 for an   *)
(* object id, -1 for a prefix length).                                     *)
(***************************************************************************)
EXTENDS Integers, Sequences, FiniteSets, TLC

VARIABLES db, settings, task, submitted

vars == <<db, settings, task, submitted>>

None == "None"
NoneStr == <<"<None>">>
NoId == 0
NoPfLen == 0 - 1
NoAddress == <<None, NoPfLen>>

(***************************************************************************)
(* Bounds of the model.                                                    *)
(***************************************************************************)
MaxTasks == 2
MaxAttempts == 2
MaxLen == 3
MaxIfs == 2

(***************************************************************************)
(* Python str methods used by the code, character by character.            *)
(***************************************************************************)
UpperLetters == {"A", "B", "C", "X"}
LowerLetters == {"a", "b", "c", "x"}
Digits == {"9"}

IsAlpha(c) == c \in UpperLetters \cup LowerLetters

LowerChar(c) ==
  CASE c = "A" -> "a" [] c = "B" -> "b" [] c = "C" -> "c" [] c = "X" -> "x"
    [] OTHER -> c

UpperChar(c) ==
  CASE c = "a" -> "A" [] c = "b" -> "B" [] c = "c" -> "C" [] c = "x" -> "X"
    [] OTHER -> c

\* str.lower()
Lower(s) == [i \in 1..Len(s) |-> LowerChar(s[i])]

\* str.upper()
Upper(s) == [i \in 1..Len(s) |-> UpperChar(s[i])]

\* str.title(): a letter that follows a letter is lower-cased, any other
\* letter is upper-cased.
Title(s) ==
  [i \in 1..Len(s) |->
     IF i > 1 /\ IsAlpha(s[i - 1]) THEN LowerChar(s[i]) ELSE UpperChar(s[i])]

\* str.replace(" ", "-")
ReplaceSpaces(s) == [i \in 1..Len(s) |-> IF s[i] = " " THEN "-" ELSE s[i]]

\* the character class [a-zA-Z0-9\-_]
SlugChar(c) == IsAlpha(c) \/ c \in Digits \/ c = "-" \/ c = "_"

\* re.search(r"[^a-zA-Z0-9\-_]+", s) finds a match
NotSluggable(s) == \E i \in 1..Len(s) : ~SlugChar(s[i])

(***************************************************************************)
(* OnboardException and the other exceptions the code distinguishes.       *)
(***************************************************************************)
REASONS == {"fail-config", "fail-connect", "fail-execute", "fail-login", "fail-general"}

NoError == [type |-> None, reason |-> None]

OnboardException(reason) == [type |-> "OnboardException", reason |-> reason]

\* an exception of a class other than OnboardException carries no reason
Exc(type) == [type |-> type, reason |-> None]

(***************************************************************************)
(* The world outside the program: settings, the devices on the network and *)
(* what the inventory holds before the first task.                         *)
(***************************************************************************)
Workers == {"w1", "w2"}

IPs == {"10.0.0.1", "10.0.0.2"}
PrefixLengths == {24, 32}
Sites == {"dc1"}

\* settings.PLUGINS_CONFIG["netbox_onboarding"]
Settings ==
  [create_manufacturer_if_missing : BOOLEAN,
   create_device_type_if_missing : BOOLEAN,
   create_platform_if_missing : BOOLEAN,
   create_device_role_if_missing : BOOLEAN,
   default_device_role : {"network"}]

\* constants.NETMIKO_TO_NAPALM: netmiko platform name -> napalm driver name
NETMIKO_TO_NAPALM ==
  [n \in {"cisco_ios", "arista_eos", "juniper_junos"} |->
     CASE n = "cisco_ios" -> "ios"
       [] n = "arista_eos" -> "eos"
       [] OTHER -> "junos"]

\* Platform records in the inventory before the first task: one with a
\* driver, one without.
InitialPlatforms ==
  {[slug |-> "arista_eos", name |-> "arista_eos", napalm_driver |-> "eos"],
   [slug |-> "linux", name |-> "linux", napalm_driver |-> ""]}

InitialRoles == {"access"}

InitialDb ==
  [manufacturers |-> {},
   device_types |-> {},
   device_roles |-> InitialRoles,
   platforms |-> InitialPlatforms,
   devices |-> << >>,
   interfaces |-> << >>,
   ip_addresses |-> {}]

\* OnboardingTask fields the pipeline reads: ip_address, platform, role, site
\* (platform and role are references to inventory records, or None).
Requests ==
  [ip_address : IPs,
   platform : {None} \cup {p.slug : p \in InitialPlatforms},
   role : {None} \cup InitialRoles,
   site : Sites]

NoRequest == [ip_address |-> None, platform |-> None, role |-> None, site |-> None]

\* socket.connect: what the endpoint does
ConnectOutcomes == {"connected", "refused", "ioerror", "timeout"}

\* SSHDetect(...).autodetect(): an exception, no match (None) or a best match
DetectExceptions ==
  {"NetMikoAuthenticationException", "NetMikoTimeoutException", "SSHException",
   "Exception"}
DetectNames == {None, "cisco_ios", "hp_procurve"}
DetectOutcomes == DetectExceptions \cup DetectNames

\* the napalm driver session: open / get_facts / get_interfaces_ip
DriverOutcomes == {"ConnectionException", "CommandErrorException", "Exception", "facts"}

\* dev.get_facts() of the devices on the network
DeviceFacts ==
  {[hostname |-> "sw1", vendor |-> <<"a", "b">>, model |-> <<"X", " ", "9">>,
    serial_number |-> "SN1"],
   [hostname |-> "sw1", vendor |-> <<"A", "B">>, model |-> <<"X", " ", "9">>,
    serial_number |-> "SN2"],
   [hostname |-> "sw2", vendor |-> <<"a", "b">>, model |-> <<"x", "/", "9">>,
    serial_number |-> "SN2"],
   [hostname |-> "sw2", vendor |-> <<"c">>, model |-> <<"X", " ", "9">>,
    serial_number |-> "SN1"]}

NoFacts == [hostname |-> None, vendor |-> NoneStr, model |-> NoneStr, serial_number |-> None]

\* dev.get_interfaces_ip(): a dict in iteration order; each interface's data
\* has an "ipv4" dict (address -> prefix_length, in iteration order) or none.
IfData(name, ipv4) == [name |-> name, has_ipv4 |-> TRUE, ipv4 |-> ipv4]
IfDataNoIpv4(name) == [name |-> name, has_ipv4 |-> FALSE, ipv4 |-> << >>]
Addr(ip, pflen) == [addr |-> ip, prefix_length |-> pflen]

DeviceIfMaps ==
  {<<IfData("Gi0/1", <<Addr("10.0.0.1", 24)>>),
     IfData("Gi0/2", <<Addr("10.0.0.1", 32), Addr("10.0.0.2", 24)>>)>>,
   <<IfData("Gi0/1", << >>)>>,
   <<IfDataNoIpv4("Gi0/1"), IfData("Gi0/2", <<Addr("10.0.0.1", 24)>>)>>}

(***************************************************************************)
(* One run of the pipeline: the NetdevKeeper and NetboxKeeper attributes,  *)
(* the OnboardingTask fields the run writes, the locals of                 *)
(* get_required_info, and a record of what the run did.                    *)
(***************************************************************************)
IdleTask ==
  [pc |-> "idle",
   req |-> NoRequest,
   ot_role |-> None,
   ot_device |-> NoId,
   sock |-> None,
   platform_name |-> None,
   platform_object |-> None,
   driver_name |-> None,
   facts |-> NoFacts,
   ip_ifs |-> << >>,
   hostname |-> None,
   vendor |-> NoneStr,
   model |-> NoneStr,
   serial_number |-> None,
   mgmt_ifname |-> None,
   mgmt_pflen |-> NoPfLen,
   manufacturer |-> NoneStr,
   device_type |-> NoneStr,
   device_role |-> None,
   device |-> NoId,
   interface |-> NoId,
   primary_ip |-> NoAddress,
   error |-> NoError,
   probe |-> None,
   detect |-> None,
   raised |-> NoError,
   trace |-> << >>,
   created |-> {},
   attempt |-> 0,
   prev_ok |-> FALSE]

\* NetdevKeeper.__init__ and NetboxKeeper.__init__ for a submitted request
NewTask(req) ==
  [IdleTask EXCEPT !.pc = "check_reachability", !.req = req,
                   !.ot_role = req.role, !.attempt = 1]

\* a step of the run has been entered
Did(t, step) == [t EXCEPT !.trace = Append(@, step)]

\* an exception leaves the pipeline: the run is over
Raise(t, exc) ==
  [t EXCEPT !.pc = "raised", !.error = exc,
            !.raised = IF @ = NoError THEN exc ELSE @,
            !.ip_ifs = << >>]

Finished(t) == t.pc \in {"done", "raised"}

Init ==
  /\ db = InitialDb
  /\ settings \in Settings
  /\ task = [w \in Workers |-> IdleTask]
  /\ submitted = 0

\* a worker takes a pending OnboardingTask
Submit(w) ==
  /\ task[w].pc \in {"idle", "done", "raised"}
  /\ submitted < MaxTasks
  /\ \E req \in Requests : task' = [task EXCEPT ![w] = NewTask(req)]
  /\ submitted' = submitted + 1
  /\ UNCHANGED <<db, settings>>

(***************************************************************************)
(* NetdevKeeper.check_reachability                                         *)
(***************************************************************************)
\* check_reachability with the except clause dropped: the failure is swallowed
check_reachability_swallowed(t, outcome) ==
  [Did(t, "check_reachability") EXCEPT !.probe = outcome, !.sock = "open",
                                       !.pc = "get_platform_name"]

check_reachability(t, outcome) ==
  LET t1 == [Did(t, "check_reachability") EXCEPT !.probe = outcome, !.sock = "open"]
  IN  IF outcome = "connected"
        THEN [t1 EXCEPT !.pc = "get_platform_name"]
        ELSE Raise(t1, OnboardException("fail-connect"))

CheckReachability(w) ==
  /\ task[w].pc = "check_reachability"
  /\ \E outcome \in ConnectOutcomes :
       task' = [task EXCEPT ![w] = check_reachability(@, outcome)]
  /\ UNCHANGED <<db, settings, submitted>>

(***************************************************************************)
(* NetdevKeeper.guess_netmiko_device_type and get_platform_name            *)
(***************************************************************************)
Returns(value) == [exc |-> NoError, value |-> value]
Throws(exc) == [exc |-> exc, value |-> None]

guess_netmiko_device_type(outcome) ==
  CASE outcome = "NetMikoAuthenticationException" ->
         Throws(OnboardException("fail-login"))
    [] outcome \in {"NetMikoTimeoutException", "SSHException"} ->
         Throws(OnboardException("fail-connect"))
    [] outcome = "Exception" ->
         Throws(OnboardException("fail-general"))
    [] OTHER -> Returns(outcome)

\* the Platform record with this slug (a reference held by the task)
PlatformBySlug(d, slug) == CHOOSE p \in d.platforms : p.slug = slug

get_platform_name(t, d, outcome) ==
  IF t.req.platform # None
    THEN Returns(PlatformBySlug(d, t.req.platform).name)
    ELSE guess_netmiko_device_type(outcome)

\* the except clauses that close the try block of get_required_info
required_info_except(exc) ==
  CASE exc.type = "ConnectionException" -> OnboardException("fail-login")
    [] exc.type = "CommandErrorException" -> OnboardException("fail-execute")
    [] OTHER -> OnboardException("fail-general")

\* an exception raised inside the try block of get_required_info
RaiseInTry(t, exc) == Raise([t EXCEPT !.raised = exc], required_info_except(exc))

GetPlatformName(w) ==
  /\ task[w].pc = "get_platform_name"
  /\ \E outcome \in IF task[w].req.platform # None THEN {None} ELSE DetectOutcomes :
       LET t == [Did(task[w], "get_platform_name") EXCEPT
                   !.detect = IF task[w].req.platform # None THEN None
                              ELSE IF outcome = None THEN "no match" ELSE outcome]
           r == get_platform_name(t, db, outcome)
       IN  task' = [task EXCEPT ![w] =
                      IF r.exc # NoError
                        THEN RaiseInTry(t, r.exc)
                        ELSE [t EXCEPT !.pc = "get_platform_object",
                                       !.platform_name = r.value]]
  /\ UNCHANGED <<db, settings, submitted>>

(***************************************************************************)
(* NetdevKeeper.get_platform_object_from_netbox                            *)
(***************************************************************************)
\* the lookup with the create_platform_if_missing test left out
get_platform_object_create_unasked(d, cfg, platform_name) ==
  IF \E p \in d.platforms : p.slug = platform_name
    THEN [exc |-> NoError, value |-> platform_name, db |-> d]
    ELSE IF platform_name \notin DOMAIN NETMIKO_TO_NAPALM
      THEN [exc |-> OnboardException("fail-general"), value |-> None, db |-> d]
    ELSE [exc |-> NoError, value |-> platform_name,
          db |-> [d EXCEPT !.platforms = @ \cup
                    {[slug |-> platform_name, name |-> platform_name,
                      napalm_driver |-> NETMIKO_TO_NAPALM[platform_name]]}]]

get_platform_object_from_netbox(d, cfg, platform_name) ==
  IF \E p \in d.platforms : p.slug = platform_name
    THEN [exc |-> NoError, value |-> platform_name, db |-> d]
    ELSE IF ~cfg.create_platform_if_missing
      THEN [exc |-> OnboardException("fail-general"), value |-> None, db |-> d]
    ELSE IF platform_name \notin DOMAIN NETMIKO_TO_NAPALM
      THEN [exc |-> OnboardException("fail-general"), value |-> None, db |-> d]
    ELSE [exc |-> NoError, value |-> platform_name,
          db |-> [d EXCEPT !.platforms = @ \cup
                    {[slug |-> platform_name, name |-> platform_name,
                      napalm_driver |-> NETMIKO_TO_NAPALM[platform_name]]}]]

GetPlatformObject(w) ==
  /\ task[w].pc = "get_platform_object"
  /\ LET t == Did(task[w], "get_platform_object_from_netbox")
         r == get_platform_object_from_netbox(db, settings, t.platform_name)
         made == r.db.platforms # db.platforms
         t1 == [t EXCEPT !.platform_object = r.value,
                         !.created = IF made THEN @ \cup {"Platform"} ELSE @]
         driver_name == IF r.exc = NoError
                          THEN PlatformBySlug(r.db, r.value).napalm_driver
                          ELSE None
     IN  /\ db' = r.db
         /\ task' = [task EXCEPT ![w] =
                       IF r.exc # NoError
                         THEN RaiseInTry(t1, r.exc)
                       ELSE IF driver_name = ""
                         THEN RaiseInTry(t1, OnboardException("fail-general"))
                       ELSE [t1 EXCEPT !.pc = "collect",
                                       !.driver_name = driver_name]]
  /\ UNCHANGED <<settings, submitted>>

(***************************************************************************)
(* get_required_info: the driver session                                   *)
(***************************************************************************)
CollectFrom(w, Facts, IfMaps) ==
  /\ task[w].pc = "collect"
  /\ \E outcome \in DriverOutcomes, facts \in Facts, ip_ifs \in IfMaps :
       LET t == Did(task[w], "collect")
       IN  task' = [task EXCEPT ![w] =
                      IF outcome # "facts"
                        THEN RaiseInTry(t, Exc(outcome))
                        ELSE [t EXCEPT !.pc = "correlate",
                                       !.facts = facts, !.ip_ifs = ip_ifs]]
  /\ UNCHANGED <<db, settings, submitted>>

Collect(w) == CollectFrom(w, DeviceFacts, DeviceIfMaps)

(***************************************************************************)
(* get_required_info: the management interface                             *)
(***************************************************************************)
\* the prefix length recorded for address ip in an "ipv4" dict, NoPfLen if
\* the dict has no such key
PrefixLengthOf(ipv4, ip) ==
  IF \E j \in 1..Len(ipv4) : ipv4[j].addr = ip
    THEN ipv4[CHOOSE j \in 1..Len(ipv4) : ipv4[j].addr = ip].prefix_length
    ELSE NoPfLen

\* the scan keeps the last interface that carries the address, not the first
first_mgmt_last(ip_ifs, i, mgmt_ipaddr) ==
  LET hits == {k \in i..Len(ip_ifs) :
                 ip_ifs[k].has_ipv4 /\ PrefixLengthOf(ip_ifs[k].ipv4, mgmt_ipaddr) # NoPfLen}
  IN  IF hits = {}
        THEN [exc |-> Exc("TypeError"), mgmt_ifname |-> None, mgmt_pflen |-> NoPfLen]
        ELSE LET k == CHOOSE x \in hits : \A y \in hits : y <= x
             IN  [exc |-> NoError, mgmt_ifname |-> ip_ifs[k].name,
                  mgmt_pflen |-> PrefixLengthOf(ip_ifs[k].ipv4, mgmt_ipaddr)]

\* first(generator): the generator is consumed lazily, interface by
\* interface; if_data["ipv4"] of an interface without that key raises
\* KeyError; an exhausted generator makes first return None, which the tuple
\* assignment cannot unpack (TypeError).
RECURSIVE first_mgmt(_, _, _)
first_mgmt(ip_ifs, i, mgmt_ipaddr) ==
  IF i > Len(ip_ifs)
    THEN [exc |-> Exc("TypeError"), mgmt_ifname |-> None, mgmt_pflen |-> NoPfLen]
  ELSE IF ~ip_ifs[i].has_ipv4
    THEN [exc |-> Exc("KeyError"), mgmt_ifname |-> None, mgmt_pflen |-> NoPfLen]
  ELSE IF PrefixLengthOf(ip_ifs[i].ipv4, mgmt_ipaddr) # NoPfLen
    THEN [exc |-> NoError, mgmt_ifname |-> ip_ifs[i].name,
          mgmt_pflen |-> PrefixLengthOf(ip_ifs[i].ipv4, mgmt_ipaddr)]
  ELSE first_mgmt(ip_ifs, i + 1, mgmt_ipaddr)

\* lines 252-270: locate the interface, then retain the attributes
retain_required_info(t) ==
  LET r == first_mgmt(t.ip_ifs, 1, t.req.ip_address)
  IN  IF r.exc # NoError
        THEN Raise([t EXCEPT !.raised = r.exc], OnboardException("fail-general"))
        ELSE [t EXCEPT !.pc = "ensure_device_type",
                       !.ip_ifs = << >>,
                       !.hostname = t.facts.hostname,
                       !.vendor = Title(t.facts.vendor),
                       !.model = Lower(t.facts.model),
                       !.serial_number = t.facts.serial_number,
                       !.mgmt_ifname = r.mgmt_ifname,
                       !.mgmt_pflen = r.mgmt_pflen]

Correlate(w) ==
  /\ task[w].pc = "correlate"
  /\ task' = [task EXCEPT ![w] = retain_required_info(Did(@, "correlate"))]
  /\ UNCHANGED <<db, settings, submitted>>

(***************************************************************************)
(* NetboxKeeper.  Each ensure_* operator takes the run and the inventory   *)
(* and gives the run and the inventory after the method.                   *)
(***************************************************************************)
Out(t, d) == [t |-> t, db |-> d]

Created(t, kind) == [t EXCEPT !.created = @ \cup {kind}]

\* DeviceType.objects.get(slug=...): the records with this slug
DeviceTypesBySlug(d, slug) == {dt \in d.device_types : dt.slug = slug}

\* lines 333-337: the slug looked up and created
sluggify(model) == IF NotSluggable(model) THEN ReplaceSpaces(model) ELSE model

\* the Manufacturer part with the create_manufacturer_if_missing test left out
ensure_manufacturer_ungated(t, d, cfg) ==
  IF t.vendor \in d.manufacturers
    THEN Out([t EXCEPT !.manufacturer = t.vendor], d)
    ELSE Out(Created([t EXCEPT !.manufacturer = t.vendor], "Manufacturer"),
             [d EXCEPT !.manufacturers = @ \cup {t.vendor}])

\* lines 318-327: the Manufacturer named by the vendor
ensure_manufacturer(t, d, cfg) ==
  IF t.vendor \in d.manufacturers
    THEN Out([t EXCEPT !.manufacturer = t.vendor], d)
  ELSE IF ~cfg.create_manufacturer_if_missing
    THEN Out(Raise(t, OnboardException("fail-config")), d)
  ELSE Out(Created([t EXCEPT !.manufacturer = t.vendor], "Manufacturer"),
           [d EXCEPT !.manufacturers = @ \cup {t.vendor}])

\* the guard-rail left out
manufacturer_conflict_unchecked(dt, manufacturer) == FALSE

\* lines 354-358: the guard-rail on an existing DeviceType's manufacturer
manufacturer_conflict(dt, manufacturer) == dt.manufacturer # manufacturer

\* lines 329-358: the DeviceType of the (sluggified) model
ensure_device_type_slug(t0, d, cfg) ==
  LET t == [t0 EXCEPT !.model = sluggify(t0.model)]
      found == DeviceTypesBySlug(d, t.model)
  IN  IF found # {}
        THEN LET dt == CHOOSE x \in found : TRUE
                 t1 == [t EXCEPT !.device_type = dt.slug]
             IN  IF manufacturer_conflict(dt, t.manufacturer)
                   THEN Out(Raise(t1, OnboardException("fail-config")), d)
                   ELSE Out(t1, d)
      ELSE IF ~cfg.create_device_type_if_missing
        THEN Out(Raise(t, OnboardException("fail-config")), d)
      ELSE Out(Created([t EXCEPT !.device_type = t.model], "DeviceType"),
               [d EXCEPT !.device_types = @ \cup
                  {[slug |-> t.model, model |-> Upper(t.model),
                    manufacturer |-> t.manufacturer]}])

\* ensure_device_type that goes on to the DeviceType when the Manufacturer
\* part has raised
ensure_device_type_no_stop(t, d, cfg) ==
  LET m == ensure_manufacturer(t, d, cfg)
  IN  ensure_device_type_slug(m.t, m.db, cfg)

ensure_device_type(t, d, cfg) ==
  LET m == ensure_manufacturer(t, d, cfg)
  IN  IF m.t.pc = "raised" THEN m ELSE ensure_device_type_slug(m.t, m.db, cfg)

EnsureDeviceType(w) ==
  /\ task[w].pc = "ensure_device_type"
  /\ LET r == ensure_device_type(Did(task[w], "ensure_device_type"), db, settings)
     IN  /\ db' = r.db
         /\ task' = [task EXCEPT ![w] =
                       IF r.t.pc = "raised" THEN r.t
                       ELSE [r.t EXCEPT !.pc = "ensure_device_role"]]
  /\ UNCHANGED <<settings, submitted>>

\* lines 360-379
ensure_device_role(t, d, cfg) ==
  IF t.ot_role # None
    THEN Out(t, d)
  ELSE IF cfg.default_device_role \in d.device_roles
    THEN Out(t, d)
  ELSE IF ~cfg.create_device_role_if_missing
    THEN Out(Raise(t, OnboardException("fail-config")), d)
  ELSE Out(Created([t EXCEPT !.ot_role = cfg.default_device_role], "DeviceRole"),
           [d EXCEPT !.device_roles = @ \cup {cfg.default_device_role}])

EnsureDeviceRole(w) ==
  /\ task[w].pc = "ensure_device_role"
  /\ LET r == ensure_device_role(Did(task[w], "ensure_device_role"), db, settings)
     IN  /\ db' = r.db
         /\ task' = [task EXCEPT ![w] =
                       IF r.t.pc = "raised" THEN r.t
                       ELSE [r.t EXCEPT !.pc = "ensure_device_instance"]]
  /\ UNCHANGED <<settings, submitted>>

\* Device.objects.get_or_create(name=, device_type=, device_role=, platform=, site=):
\* the ids of the Devices that match the lookup
DevicesMatching(d, t) ==
  {i \in DOMAIN d.devices :
     /\ d.devices[i].name = t.hostname
     /\ d.devices[i].device_type = t.device_type
     /\ d.devices[i].device_role = t.ot_role
     /\ d.devices[i].platform = t.req.platform
     /\ d.devices[i].site = t.req.site}

\* the inventory's Device table requires a device role
DeviceInsertRejected(t) == t.ot_role = None

\* ensure_device_instance that sets the serial of a Device it creates only
ensure_device_instance_keep_serial(t, d) ==
  LET found == DevicesMatching(d, t)
  IN  IF Cardinality(found) > 1
        THEN Out(Raise(t, Exc("MultipleObjectsReturned")), d)
      ELSE IF found = {} /\ DeviceInsertRejected(t)
        THEN Out(Raise(t, Exc("IntegrityError")), d)
      ELSE IF found # {}
        THEN LET id == CHOOSE i \in found : TRUE
             IN  Out([t EXCEPT !.device = id, !.ot_device = id], d)
      ELSE Out(Created([t EXCEPT !.device = Len(d.devices) + 1,
                                 !.ot_device = Len(d.devices) + 1], "Device"),
               [d EXCEPT !.devices =
                  Append(@, [name |-> t.hostname, device_type |-> t.device_type,
                             device_role |-> t.ot_role, platform |-> t.req.platform,
                             site |-> t.req.site, serial |-> t.serial_number,
                             primary_ip4 |-> NoAddress])])

\* lines 381-398
ensure_device_instance(t, d) ==
  LET found == DevicesMatching(d, t)
  IN  IF Cardinality(found) > 1
        THEN Out(Raise(t, Exc("MultipleObjectsReturned")), d)
      ELSE IF found = {} /\ DeviceInsertRejected(t)
        THEN Out(Raise(t, Exc("IntegrityError")), d)
      ELSE LET id == IF found = {} THEN Len(d.devices) + 1
                     ELSE CHOOSE i \in found : TRUE
               row == IF found = {}
                        THEN [name |-> t.hostname, device_type |-> t.device_type,
                              device_role |-> t.ot_role, platform |-> t.req.platform,
                              site |-> t.req.site, serial |-> "",
                              primary_ip4 |-> NoAddress]
                        ELSE d.devices[id]
               saved == [row EXCEPT !.serial = t.serial_number]
               t1 == [t EXCEPT !.device = id, !.ot_device = id]
           IN  Out(IF found = {} THEN Created(t1, "Device") ELSE t1,
                   [d EXCEPT !.devices =
                      IF found = {} THEN Append(@, saved)
                      ELSE [@ EXCEPT ![id] = saved]])

EnsureDeviceInstance(w) ==
  /\ task[w].pc = "ensure_device_instance"
  /\ LET r == ensure_device_instance(Did(task[w], "ensure_device_instance"), db)
     IN  /\ db' = r.db
         /\ task' = [task EXCEPT ![w] =
                       IF r.t.pc = "raised" THEN r.t
                       ELSE [r.t EXCEPT !.pc = "ensure_interface"]]
  /\ UNCHANGED <<settings, submitted>>

\* Interface.objects.get_or_create(name=, device=): the matching ids
InterfacesMatching(d, name, device) ==
  {i \in DOMAIN d.interfaces :
     d.interfaces[i].name = name /\ d.interfaces[i].device = device}

\* lines 400-402
ensure_interface(t, d) ==
  LET found == InterfacesMatching(d, t.mgmt_ifname, t.device)
  IN  IF found # {}
        THEN Out([t EXCEPT !.interface = CHOOSE i \in found : TRUE], d)
        ELSE Out(Created([t EXCEPT !.interface = Len(d.interfaces) + 1], "Interface"),
                 [d EXCEPT !.interfaces =
                    Append(@, [name |-> t.mgmt_ifname, device |-> t.device])])

EnsureInterface(w) ==
  /\ task[w].pc = "ensure_interface"
  /\ LET r == ensure_interface(Did(task[w], "ensure_interface"), db)
     IN  /\ db' = r.db
         /\ task' = [task EXCEPT ![w] = [r.t EXCEPT !.pc = "ensure_primary_ip"]]
  /\ UNCHANGED <<settings, submitted>>

\* f"{mgmt_ipaddr}/{self.netdev.mgmt_pflen}"
Cidr(ip, pflen) == <<ip, pflen>>

\* IPAddress.objects.get_or_create(address=): the matching records
IPAddressesMatching(d, address) == {a \in d.ip_addresses : a.address = address}

\* an inventory that lets any number of Devices hold an IPAddress as primary_ip4
PrimaryIpNeverRejected(d, device, address) == FALSE

\* the inventory lets one Device at most hold an IPAddress as primary_ip4
PrimaryIpRejected(d, device, address) ==
  \E j \in DOMAIN d.devices : j # device /\ d.devices[j].primary_ip4 = address

\* the IPAddress is bound to the run's interface whatever it was bound to
bind_interface_always(found, t) == t.interface

\* lines 411-413: the interface the IPAddress is saved with
bind_interface(found, t) ==
  IF found = {} THEN t.interface
  ELSE LET a == CHOOSE x \in found : TRUE
       IN  IF a.interface = NoId THEN t.interface ELSE a.interface

\* lines 404-419
ensure_primary_ip(t, d) ==
  LET address == Cidr(t.req.ip_address, t.mgmt_pflen)
      found == IPAddressesMatching(d, address)
      saved == [address |-> address, interface |-> bind_interface(found, t)]
      t1 == [t EXCEPT !.primary_ip = address]
      t2 == IF found = {} THEN Created(t1, "IPAddress") ELSE t1
      d1 == [d EXCEPT !.ip_addresses = (@ \ found) \cup {saved}]
  IN  IF PrimaryIpRejected(d1, t.device, address)
        THEN Out(Raise(t2, Exc("IntegrityError")), d1)
        ELSE Out(t2, [d1 EXCEPT !.devices[t.device].primary_ip4 = address])

EnsurePrimaryIp(w) ==
  /\ task[w].pc = "ensure_primary_ip"
  /\ LET r == ensure_primary_ip(Did(task[w], "ensure_primary_ip"), db)
     IN  /\ db' = r.db
         /\ task' = [task EXCEPT ![w] =
                       IF r.t.pc = "raised" THEN r.t
                       ELSE [r.t EXCEPT !.pc = "done"]]
  /\ UNCHANGED <<settings, submitted>>

(***************************************************************************)
(* A second ensure_device run for the same facts, management binding and   *)
(* request: a new NetdevKeeper holding what get_required_info retained     *)
(* from the same facts, the request as it was submitted, and a new         *)
(* NetboxKeeper.                                                           *)
(***************************************************************************)
SecondRun(t) ==
  [NewTask(t.req) EXCEPT !.pc = "ensure_device_type",
                         !.facts = t.facts,
                         !.hostname = t.facts.hostname,
                         !.vendor = Title(t.facts.vendor),
                         !.model = Lower(t.facts.model),
                         !.serial_number = t.facts.serial_number,
                         !.mgmt_ifname = t.mgmt_ifname,
                         !.mgmt_pflen = t.mgmt_pflen,
                         !.attempt = t.attempt + 1,
                         !.prev_ok = (t.pc = "done")]

Resubmit(w) ==
  /\ Finished(task[w])
  /\ task[w].mgmt_ifname # None
  /\ task[w].attempt < MaxAttempts
  /\ task' = [task EXCEPT ![w] = SecondRun(@)]
  /\ UNCHANGED <<db, settings, submitted>>

(***************************************************************************)
(* The pipeline of one worker: runs follow one another.                    *)
(***************************************************************************)
Pipeline(w) ==
  \/ Submit(w)
  \/ CheckReachability(w)
  \/ GetPlatformName(w)
  \/ GetPlatformObject(w)
  \/ Collect(w)
  \/ Correlate(w)
  \/ EnsureDeviceType(w)
  \/ EnsureDeviceRole(w)
  \/ EnsureDeviceInstance(w)
  \/ EnsureInterface(w)
  \/ EnsurePrimaryIp(w)
  \/ Resubmit(w)

Next == Pipeline("w1")

Spec == Init /\ [][Next]_vars

(***************************************************************************)
(* ensure_device for every model string: runs that enter ensure_device     *)
(* with the model get_required_info retains (lower-cased) for a model of   *)
(* up to MaxLen characters.                                                *)
(***************************************************************************)
ModelAlphabet == {"x", "X", "9", "-", "_", " ", "/"}

ModelStrings == UNION {[1..k -> ModelAlphabet] : k \in 0..MaxLen}

AllCreate ==
  [create_manufacturer_if_missing |-> TRUE,
   create_device_type_if_missing |-> TRUE,
   create_platform_if_missing |-> TRUE,
   create_device_role_if_missing |-> TRUE,
   default_device_role |-> "network"]

\* the run after get_required_info has returned, for a request that names
\* the platform arista_eos
CollectedTask(req, facts, ifname, pflen) ==
  [NewTask(req) EXCEPT
     !.pc = "ensure_device_type",
     !.sock = "open",
     !.probe = "connected",
     !.platform_name = "arista_eos",
     !.platform_object = "arista_eos",
     !.driver_name = "eos",
     !.facts = facts,
     !.hostname = facts.hostname,
     !.vendor = Title(facts.vendor),
     !.model = Lower(facts.model),
     !.serial_number = facts.serial_number,
     !.mgmt_ifname = ifname,
     !.mgmt_pflen = pflen,
     !.trace = <<"check_reachability", "get_platform_name",
                 "get_platform_object_from_netbox", "collect", "correlate">>]

InitSlug ==
  /\ db = InitialDb
  /\ settings \in {cfg \in Settings : cfg.create_manufacturer_if_missing}
  /\ submitted = 1
  /\ \E m \in ModelStrings :
       task = [w \in Workers |->
                 IF w = "w1"
                   THEN CollectedTask(
                          [ip_address |-> "10.0.0.1", platform |-> "arista_eos",
                           role |-> "access", site |-> "dc1"],
                          [hostname |-> "sw1", vendor |-> <<"a", "b">>,
                           model |-> m, serial_number |-> "SN1"],
                          "Gi0/1", 24)
                   ELSE IdleTask]

NextSlug ==
  \/ EnsureDeviceType("w1")
  \/ EnsureDeviceRole("w1")
  \/ EnsureDeviceInstance("w1")
  \/ EnsureInterface("w1")
  \/ EnsurePrimaryIp("w1")
  \/ Resubmit("w1")

SpecSlug == InitSlug /\ [][NextSlug]_vars

(***************************************************************************)
(* get_required_info for every interface map: runs that have resolved the  *)
(* driver, for every answer of get_interfaces_ip with up to MaxIfs         *)
(* interfaces.                                                             *)
(***************************************************************************)
IfNames == {"Gi0/1", "Gi0/2", "Gi0/3"}

\* the "ipv4" dicts: distinct addresses, in every iteration order
Ipv4Dicts ==
  {v \in UNION {[1..k -> [addr : IPs, prefix_length : PrefixLengths]] :
                  k \in 0..Cardinality(IPs)} :
     \A i, j \in 1..Len(v) : i # j => v[i].addr # v[j].addr}

IfDatas ==
  {IfData(n, v) : n \in IfNames, v \in Ipv4Dicts} \cup {IfDataNoIpv4(n) : n \in IfNames}

\* the interface dicts: distinct names, in every iteration order
AllIfMaps ==
  {m \in UNION {[1..k -> IfDatas] : k \in 0..MaxIfs} :
     \A i, j \in 1..Len(m) : i # j => m[i].name # m[j].name}

ResolvedTask(req) ==
  [NewTask(req) EXCEPT
     !.pc = "collect",
     !.sock = "open",
     !.probe = "connected",
     !.platform_name = "arista_eos",
     !.platform_object = "arista_eos",
     !.driver_name = "eos",
     !.trace = <<"check_reachability", "get_platform_name",
                 "get_platform_object_from_netbox">>]

InitMgmt ==
  /\ db = InitialDb
  /\ settings = AllCreate
  /\ submitted = 1
  /\ \E req \in {r \in Requests : r.platform = "arista_eos" /\ r.role = "access"} :
       task = [w \in Workers |-> IF w = "w1" THEN ResolvedTask(req) ELSE IdleTask]

CollectAny(w) ==
  CollectFrom(w, {f \in DeviceFacts : f.serial_number = "SN1"}, AllIfMaps)

NextMgmt == CollectAny("w1") \/ Correlate("w1")

SpecMgmt == InitMgmt /\ [][NextMgmt]_vars

(***************************************************************************)
(* ensure_device as one function of the run and the inventory.             *)
(***************************************************************************)
\* lines 437-441: the five methods in sequence; an exception ends the run
ensure_device(t, d, cfg) ==
  LET r1 == ensure_device_type(Did(t, "ensure_device_type"), d, cfg)
      r2 == ensure_device_role(Did(r1.t, "ensure_device_role"), r1.db, cfg)
      r3 == ensure_device_instance(Did(r2.t, "ensure_device_instance"), r2.db)
      r4 == ensure_interface(Did(r3.t, "ensure_interface"), r3.db)
      r5 == ensure_primary_ip(Did(r4.t, "ensure_primary_ip"), r4.db)
  IN  IF r1.t.pc = "raised" THEN r1
      ELSE IF r2.t.pc = "raised" THEN r2
      ELSE IF r3.t.pc = "raised" THEN r3
      ELSE IF r5.t.pc = "raised" THEN r5
      ELSE Out([r5.t EXCEPT !.pc = "done"], r5.db)

(***************************************************************************)
(* Retry after a failed ensure_device: the run enters ensure_device on the *)
(* initial inventory under any settings; when it ends in fail-config the   *)
(* operator removes the cause (allows the creations, or, for a missing     *)
(* default role, adds the DeviceRole to the inventory) and the task is run *)
(* again for the same facts, binding and request.                          *)
(***************************************************************************)
Fixes(t) ==
  {"allow creation"} \cup
    (IF t.trace # << >> /\ t.trace[Len(t.trace)] = "ensure_device_role"
       THEN {"add role"} ELSE {})

RetryAfterFix(w) ==
  /\ task[w].pc = "raised"
  /\ task[w].error = OnboardException("fail-config")
  /\ task[w].attempt < MaxAttempts
  /\ \E fix \in Fixes(task[w]) :
       /\ settings' = IF fix = "allow creation"
                        THEN [AllCreate EXCEPT
                                !.default_device_role = settings.default_device_role]
                        ELSE settings
       /\ db' = IF fix = "add role"
                  THEN [db EXCEPT !.device_roles = @ \cup {settings.default_device_role}]
                  ELSE db
  /\ task' = [task EXCEPT ![w] = SecondRun(@)]
  /\ UNCHANGED submitted

InitRetry ==
  /\ db = InitialDb
  /\ settings \in Settings
  /\ submitted = 1
  /\ \E req \in {r \in Requests : r.platform = "arista_eos"}, facts \in DeviceFacts :
       task = [w \in Workers |->
                 IF w = "w1" THEN CollectedTask(req, facts, "Gi0/1", 24) ELSE IdleTask]

NextRetry ==
  \/ EnsureDeviceType("w1")
  \/ EnsureDeviceRole("w1")
  \/ EnsureDeviceInstance("w1")
  \/ EnsureInterface("w1")
  \/ EnsurePrimaryIp("w1")
  \/ RetryAfterFix("w1")

SpecRetry == InitRetry /\ [][NextRetry]_vars

(***************************************************************************)
(* Two ensure_device runs at the same time.  Every call of the inventory   *)
(* (objects.get, objects.create, get_or_create) is one step: between the   *)
(* get that finds nothing and the create that follows it the other run may *)
(* act.  The inventory keeps Manufacturer names, DeviceType slugs and      *)
(* DeviceRole slugs unique: a create of a key that exists is rejected      *)
(* with IntegrityError.                                                    *)
(***************************************************************************)
\* line 319, 321-324: Manufacturer.objects.get and the policy test
GetManufacturer(w) ==
  /\ task[w].pc = "get_manufacturer"
  /\ LET t == Did(task[w], "get_manufacturer")
     IN  task' = [task EXCEPT ![w] =
                    IF t.vendor \in db.manufacturers
                      THEN [t EXCEPT !.manufacturer = t.vendor, !.pc = "get_device_type"]
                    ELSE IF ~settings.create_manufacturer_if_missing
                      THEN Raise(t, OnboardException("fail-config"))
                    ELSE [t EXCEPT !.pc = "create_manufacturer"]]
  /\ UNCHANGED <<db, settings, submitted>>

\* lines 326-327: Manufacturer.objects.create
CreateManufacturer(w) ==
  /\ task[w].pc = "create_manufacturer"
  /\ LET t == Did(task[w], "create_manufacturer")
     IN  IF t.vendor \in db.manufacturers
           THEN /\ task' = [task EXCEPT ![w] = Raise(t, Exc("IntegrityError"))]
                /\ db' = db
           ELSE /\ task' = [task EXCEPT ![w] =
                              Created([t EXCEPT !.manufacturer = t.vendor,
                                                !.pc = "get_device_type"],
                                      "Manufacturer")]
                /\ db' = [db EXCEPT !.manufacturers = @ \cup {t.vendor}]
  /\ UNCHANGED <<settings, submitted>>

\* lines 333-345, 354-358: the slug, DeviceType.objects.get, the policy test
\* and the guard-rail
GetDeviceType(w) ==
  /\ task[w].pc = "get_device_type"
  /\ LET t == [Did(task[w], "get_device_type") EXCEPT !.model = sluggify(@)]
         found == DeviceTypesBySlug(db, t.model)
     IN  task' = [task EXCEPT ![w] =
                    IF found # {}
                      THEN LET dt == CHOOSE x \in found : TRUE
                               t1 == [t EXCEPT !.device_type = dt.slug]
                           IN  IF manufacturer_conflict(dt, t.manufacturer)
                                 THEN Raise(t1, OnboardException("fail-config"))
                                 ELSE [t1 EXCEPT !.pc = "get_device_role"]
                    ELSE IF ~settings.create_device_type_if_missing
                      THEN Raise(t, OnboardException("fail-config"))
                    ELSE [t EXCEPT !.pc = "create_device_type"]]
  /\ UNCHANGED <<db, settings, submitted>>

\* lines 348-352: DeviceType.objects.create
CreateDeviceType(w) ==
  /\ task[w].pc = "create_device_type"
  /\ LET t == Did(task[w], "create_device_type")
     IN  IF DeviceTypesBySlug(db, t.model) # {}
           THEN /\ task' = [task EXCEPT ![w] = Raise(t, Exc("IntegrityError"))]
                /\ db' = db
           ELSE /\ task' = [task EXCEPT ![w] =
                              Created([t EXCEPT !.device_type = t.model,
                                                !.pc = "get_device_role"],
                                      "DeviceType")]
                /\ db' = [db EXCEPT !.device_types = @ \cup
                            {[slug |-> t.model, model |-> Upper(t.model),
                              manufacturer |-> t.manufacturer]}]
  /\ UNCHANGED <<settings, submitted>>

\* lines 363-374: the role of the request, DeviceRole.objects.get and the
\* policy test
GetDeviceRole(w) ==
  /\ task[w].pc = "get_device_role"
  /\ LET t == Did(task[w], "get_device_role")
     IN  task' = [task EXCEPT ![w] =
                    IF t.ot_role # None \/ settings.default_device_role \in db.device_roles
                      THEN [t EXCEPT !.pc = "ensure_device_instance"]
                    ELSE IF ~settings.create_device_role_if_missing
                      THEN Raise(t, OnboardException("fail-config"))
                    ELSE [t EXCEPT !.pc = "create_device_role"]]
  /\ UNCHANGED <<db, settings, submitted>>

\* lines 376-379: DeviceRole.objects.create
CreateDeviceRole(w) ==
  /\ task[w].pc = "create_device_role"
  /\ LET t == Did(task[w], "create_device_role")
     IN  IF settings.default_device_role \in db.device_roles
           THEN /\ task' = [task EXCEPT ![w] = Raise(t, Exc("IntegrityError"))]
                /\ db' = db
           ELSE /\ task' = [task EXCEPT ![w] =
                              Created([t EXCEPT !.ot_role = settings.default_device_role,
                                                !.pc = "ensure_device_instance"],
                                      "DeviceRole")]
                /\ db' = [db EXCEPT !.device_roles = @ \cup {settings.default_device_role}]
  /\ UNCHANGED <<settings, submitted>>

\* the two devices: distinct hostnames and management addresses
RaceTask(w, facts, role) ==
  [CollectedTask(
     [ip_address |-> IF w = "w1" THEN "10.0.0.1" ELSE "10.0.0.2",
      platform |-> "arista_eos", role |-> role, site |-> "dc1"],
     [facts EXCEPT !.hostname = IF w = "w1" THEN "sw1" ELSE "sw2"],
     "Gi0/1", 24)
   EXCEPT !.pc = "get_manufacturer"]

InitRace ==
  /\ db = InitialDb
  /\ settings \in Settings
  /\ submitted = Cardinality(Workers)
  /\ \E f \in [Workers -> DeviceFacts], r \in [Workers -> {None} \cup InitialRoles] :
       task = [w \in Workers |-> RaceTask(w, f[w], r[w])]

RaceStep(w) ==
  \/ GetManufacturer(w)
  \/ CreateManufacturer(w)
  \/ GetDeviceType(w)
  \/ CreateDeviceType(w)
  \/ GetDeviceRole(w)
  \/ CreateDeviceRole(w)
  \/ EnsureDeviceInstance(w)
  \/ EnsureInterface(w)
  \/ EnsurePrimaryIp(w)

NextRace == \E w \in Workers : RaceStep(w)

SpecRace == InitRace /\ [][NextRace]_vars

(***************************************************************************)
(* ensure_device on an inventory that already holds the management         *)
(* address: entered by another source for an interface of another Device   *)
(* (not as a primary address), or with no interface.  A device may be      *)
(* onboarded again after its management address moved to another of its    *)
(* interfaces.                                                             *)
(***************************************************************************)
OtherCidr == Cidr("10.0.0.1", 24)

OtherDevice ==
  [name |-> "core1", device_type |-> <<"c", "9">>, device_role |-> "access",
   platform |-> None, site |-> "dc1", serial |-> "SN0", primary_ip4 |-> NoAddress]

WithOtherDevice ==
  [InitialDb EXCEPT
     !.manufacturers = {<<"C">>},
     !.device_types = {[slug |-> <<"c", "9">>, model |-> <<"C", "9">>,
                        manufacturer |-> <<"C">>]},
     !.devices = <<OtherDevice>>,
     !.interfaces = <<[name |-> "Vlan1", device |-> 1]>>]

PriorInventories ==
  {InitialDb,
   [WithOtherDevice EXCEPT
      !.ip_addresses = {[address |-> OtherCidr, interface |-> 1]}],
   [WithOtherDevice EXCEPT
      !.ip_addresses = {[address |-> OtherCidr, interface |-> NoId]}]}

MgmtIfNames == {"Gi0/1", "Gi0/2"}

InitPrimary ==
  /\ db \in PriorInventories
  /\ settings = AllCreate
  /\ submitted = 1
  /\ \E req \in {r \in Requests : r.platform = "arista_eos"}, facts \in DeviceFacts,
        ifname \in MgmtIfNames, pflen \in PrefixLengths :
       task = [w \in Workers |->
                 IF w = "w1" THEN CollectedTask(req, facts, ifname, pflen) ELSE IdleTask]

\* a new task for the same request and facts after get_required_info found
\* the management address on interface ifname
ReOnboard(w) ==
  /\ Finished(task[w])
  /\ task[w].attempt < MaxAttempts
  /\ \E ifname \in MgmtIfNames :
       task' = [task EXCEPT ![w] =
                  [CollectedTask(@.req, @.facts, ifname, @.mgmt_pflen) EXCEPT
                     !.attempt = task[w].attempt + 1,
                     !.prev_ok = (task[w].pc = "done")]]
  /\ UNCHANGED <<db, settings, submitted>>

NextPrimary ==
  \/ EnsureDeviceType("w1")
  \/ EnsureDeviceRole("w1")
  \/ EnsureDeviceInstance("w1")
  \/ EnsureInterface("w1")
  \/ EnsurePrimaryIp("w1")
  \/ ReOnboard("w1")

SpecPrimary == InitPrimary /\ [][NextPrimary]_vars

(***************************************************************************)
(* Properties                                                              *)
(***************************************************************************)
ProbeFailures == {"refused", "ioerror", "timeout"}

InGetRequiredInfo(t) == Len(t.trace) > 0 /\ t.trace[1] = "check_reachability"

LastStep(t) == IF t.trace = << >> THEN None ELSE t.trace[Len(t.trace)]

\* what the inventory holds for the device of run t
ManufacturersOf(t) == {m \in db.manufacturers : m = Title(t.facts.vendor)}
DeviceTypesOf(t) == {dt \in db.device_types : dt.slug = t.model}
DevicesOf(t) ==
  {i \in DOMAIN db.devices :
     /\ db.devices[i].name = t.hostname
     /\ db.devices[i].site = t.req.site
     /\ db.devices[i].device_type = t.model
     /\ db.devices[i].platform = t.req.platform
     /\ db.devices[i].device_role =
          IF t.req.role # None THEN t.req.role ELSE settings.default_device_role}
InterfacesOf(t) ==
  {i \in DOMAIN db.interfaces :
     db.interfaces[i].name = t.mgmt_ifname /\ db.interfaces[i].device \in DevicesOf(t)}
IPAddressesOf(t) ==
  {a \in db.ip_addresses : a.address = Cidr(t.req.ip_address, t.mgmt_pflen)}

\* C1: a second ensure_device run for the same facts, management binding and
\* request as submitted, after a first run that succeeded, succeeds too,
\* creates nothing, and leaves exactly one Manufacturer, DeviceType, Device,
\* Interface and IPAddress for the device.
C1_SecondRunIdempotent ==
  \A w \in Workers :
    (task[w].prev_ok /\ Finished(task[w])) =>
      /\ task[w].pc = "done"
      /\ task[w].created = {}
      /\ Cardinality(ManufacturersOf(task[w])) = 1
      /\ Cardinality(DeviceTypesOf(task[w])) = 1
      /\ Cardinality(DevicesOf(task[w])) = 1
      /\ Cardinality(InterfacesOf(task[w])) = 1
      /\ Cardinality(IPAddressesOf(task[w])) = 1

\* C2: in a run whose reachability check failed, the run ends with
\* OnboardException fail-connect after that one step: no platform detection,
\* no platform lookup or creation, no driver session, and no step of the run
\* changes the inventory.
C2_UnreachableShortCircuit ==
  [][\A w \in Workers :
       task'[w].probe \in ProbeFailures =>
         /\ task'[w].pc = "raised"
         /\ task'[w].error = OnboardException("fail-connect")
         /\ task'[w].trace = <<"check_reachability">>
         /\ task'[w].detect = None
         /\ task'[w].platform_name = None
         /\ task'[w].platform_object = None
         /\ task'[w].driver_name = None
         /\ task'[w].created = {}
         /\ db' = db]_vars

C2_Witness ==
  \E w \in Workers :
    /\ task[w].probe = "timeout"
    /\ task[w].pc = "raised"
    /\ task[w].error.reason = "fail-connect"

\* C3: when a DeviceType with the sanitized model slug exists and is bound
\* to a manufacturer other than the one the vendor names, ensure_device_type
\* raises fail-config, the DeviceTypes are as before, and the run ends there:
\* no Device, Interface or IPAddress is created.
BoundToOtherManufacturer(d, t) ==
  \E dt \in d.device_types :
    dt.slug = ReplaceSpaces(t.model) /\ dt.manufacturer # t.vendor

C3_ManufacturerConflict ==
  [][\A w \in Workers :
       (/\ task[w].pc = "ensure_device_type"
        /\ task'[w].pc # "ensure_device_type"
        /\ BoundToOtherManufacturer(db, task[w])) =>
         /\ task'[w].pc = "raised"
         /\ task'[w].error = OnboardException("fail-config")
         /\ db'.device_types = db.device_types
         /\ db'.devices = db.devices
         /\ db'.interfaces = db.interfaces
         /\ db'.ip_addresses = db.ip_addresses
         /\ task'[w].created \cap {"DeviceType", "Device", "Interface", "IPAddress"} = {}]_vars

C3_Witness ==
  \E w \in Workers :
    /\ task[w].pc = "raised"
    /\ LastStep(task[w]) = "ensure_device_type"
    /\ task[w].error.reason = "fail-config"
    /\ task[w].manufacturer = <<"C">>
    /\ \E dt \in db.device_types :
         dt.slug = task[w].model /\ dt.manufacturer = <<"A", "b">>

\* C4: the slug ensure_device_type looks up and creates holds only
\* characters of [A-Za-z0-9_-], and sanitizing it again gives the same slug.
ValidSlug(slug) == \A i \in 1..Len(slug) : SlugChar(slug[i])

C4_SlugSanitized ==
  \A w \in Workers :
    "ensure_device_type" \in {task[w].trace[i] : i \in 1..Len(task[w].trace)} =>
      /\ ValidSlug(task[w].model)
      /\ sluggify(task[w].model) = task[w].model
      /\ \A dt \in db.device_types : ValidSlug(dt.slug)

\* C5: for an interface map in which every interface has an IPv4 dict,
\* get_required_info records the name of the first interface, in iteration
\* order, whose IPv4 dict holds the management IP, and that address's prefix
\* length; when no interface holds it the run raises fail-general and
\* mgmt_ifname and mgmt_pflen stay unset.
Carries(if_data, ip) == \E j \in 1..Len(if_data.ipv4) : if_data.ipv4[j].addr = ip

Carriers(ip_ifs, ip) == {i \in 1..Len(ip_ifs) : Carries(ip_ifs[i], ip)}

FirstCarrier(ip_ifs, ip) ==
  CHOOSE i \in Carriers(ip_ifs, ip) : \A k \in Carriers(ip_ifs, ip) : i <= k

DetectionReason(outcome) ==
  CASE outcome = "NetMikoAuthenticationException" -> "fail-login"
    [] outcome \in {"NetMikoTimeoutException", "SSHException"} -> "fail-connect"
    [] OTHER -> "fail-general"

C6_DetectionFailureReason ==
  \A w \in Workers :
    (task[w].req.platform = None /\ task[w].detect \in DetectExceptions) =>
      /\ task[w].pc = "raised"
      /\ task[w].error = OnboardException(DetectionReason(task[w].detect))

\* C7: with no platform in the request, fingerprinting that finds no match
\* ends platform detection in OnboardException fail-general; no null
\* identifier reaches the platform lookup.
C7_NoSilentUnknownPlatform ==
  \A w \in Workers :
    (task[w].req.platform = None /\ task[w].detect = "no match") =>
      /\ task[w].pc = "raised"
      /\ task[w].raised = OnboardException("fail-general")
      /\ LastStep(task[w]) = "get_platform_name"

\* C8: get_platform_object_from_netbox creates a Platform only when none has
\* the name as slug, create_platform_if_missing is set and the name is a key
\* of NETMIKO_TO_NAPALM, and then with the table's driver; when none has the
\* slug and one of the two fails it raises fail-general and the Platforms
\* are as before; when one has the slug it is returned and none is created.
PlatformExists(d, name) == \E p \in d.platforms : p.slug = name

C8_PlatformResolution ==
  [][\A w \in Workers :
       (task[w].pc = "get_platform_object" /\ task'[w].pc # "get_platform_object") =>
         LET name == task[w].platform_name
             eligible == /\ settings.create_platform_if_missing
                         /\ name \in DOMAIN NETMIKO_TO_NAPALM
         IN  /\ PlatformExists(db, name) =>
                  /\ db'.platforms = db.platforms
                  /\ task'[w].platform_object = name
             /\ (~PlatformExists(db, name) /\ ~eligible) =>
                  /\ db'.platforms = db.platforms
                  /\ task'[w].pc = "raised"
                  /\ task'[w].raised = OnboardException("fail-general")
             /\ db'.platforms # db.platforms =>
                  /\ ~PlatformExists(db, name)
                  /\ eligible
                  /\ db'.platforms = db.platforms \cup
                       {[slug |-> name, name |-> name,
                         napalm_driver |-> NETMIKO_TO_NAPALM[name]]}
                  /\ task'[w].platform_object = name]_vars

C8_Witness ==
  \E w \in Workers :
    /\ task[w].pc = "collect"
    /\ task[w].platform_object = "cisco_ios"
    /\ "Platform" \in task[w].created
    /\ [slug |-> "cisco_ios", name |-> "cisco_ios", napalm_driver |-> "ios"]
         \in db.platforms

\* C9: when the request names no role, a successful ensure_device_role
\* leaves the request's role set to the role whose slug is
\* default_device_role, whether that role was created or already existed.
C9_DefaultRoleResolved ==
  \A w \in Workers :
    (task[w].pc = "ensure_device_instance" /\ task[w].req.role = None) =>
      /\ task[w].ot_role = settings.default_device_role
      /\ task[w].ot_role \in db.device_roles

\* C10: after get_required_info and ensure_device have both succeeded, the
\* Device's platform is the Platform record the lookup returned, whether the
\* request named the platform or fingerprinting determined it.
C10_DevicePlatformSet ==
  \A w \in Workers :
    (task[w].pc = "done" /\ InGetRequiredInfo(task[w])) =>
      db.devices[task[w].device].platform = task[w].platform_object

\* C11: the ensure steps of a run execute in the order ensure_device_type
\* (Manufacturer, then DeviceType), ensure_device_role, ensure_device_instance,
\* ensure_interface, ensure_primary_ip; a step is entered only by a run whose
\* earlier steps have all returned; a run that has raised has created and
\* resolved nothing that belongs to a later step; a DeviceType is created only
\* for a Manufacturer that is in the inventory; and no step removes an entity
\* of the inventory.
EnsureOrder ==
  <<"ensure_device_type", "ensure_device_role", "ensure_device_instance",
    "ensure_interface", "ensure_primary_ip">>

IsEnsureStep(s) == \E i \in 1..Len(EnsureOrder) : EnsureOrder[i] = s

EnsureSteps(t) == SelectSeq(t.trace, IsEnsureStep)

IsPrefix(a, b) == Len(a) <= Len(b) /\ \A i \in 1..Len(a) : a[i] = b[i]

\* the kinds of entity the first k ensure steps may create
KindsUpTo(k) ==
  (IF k >= 1 THEN {"Manufacturer", "DeviceType"} ELSE {})
    \cup (IF k >= 2 THEN {"DeviceRole"} ELSE {})
    \cup (IF k >= 3 THEN {"Device"} ELSE {})
    \cup (IF k >= 4 THEN {"Interface"} ELSE {})
    \cup (IF k >= 5 THEN {"IPAddress"} ELSE {})

\* every entity of inventory d is an entity of inventory e
NothingDeleted(d, e) ==
  /\ d.manufacturers \subseteq e.manufacturers
  /\ {dt.slug : dt \in d.device_types} \subseteq {dt.slug : dt \in e.device_types}
  /\ d.device_roles \subseteq e.device_roles
  /\ {p.slug : p \in d.platforms} \subseteq {p.slug : p \in e.platforms}
  /\ Len(d.devices) <= Len(e.devices)
  /\ \A i \in DOMAIN d.devices :
       /\ e.devices[i].name = d.devices[i].name
       /\ e.devices[i].device_type = d.devices[i].device_type
       /\ e.devices[i].device_role = d.devices[i].device_role
       /\ e.devices[i].platform = d.devices[i].platform
       /\ e.devices[i].site = d.devices[i].site
  /\ Len(d.interfaces) <= Len(e.interfaces)
  /\ \A i \in DOMAIN d.interfaces : e.interfaces[i] = d.interfaces[i]
  /\ {a.address : a \in d.ip_addresses} \subseteq {a.address : a \in e.ip_addresses}

C11_StrictOrderFailStop ==
  [][/\ NothingDeleted(db, db')
     /\ \A dt \in db'.device_types : dt.manufacturer \in db'.manufacturers
     /\ \A w \in Workers :
          LET steps == EnsureSteps(task'[w])
              k == Len(steps)
          IN  /\ IsPrefix(steps, EnsureOrder)
              /\ task'[w].created \subseteq {"Platform"} \cup KindsUpTo(k)
              /\ (k > Len(EnsureSteps(task[w]))) =>
                    /\ k = Len(EnsureSteps(task[w])) + 1
                    /\ task[w].pc = steps[k]
                    /\ task[w].error = NoError
              /\ (k < 3) => task'[w].device = NoId
              /\ (k < 4) => task'[w].interface = NoId
              /\ (k < 5) => task'[w].primary_ip = NoAddress
              /\ (task[w].pc = "raised" /\ task'[w].attempt = task[w].attempt
                    /\ task'[w].req = task[w].req /\ task'[w].pc = "raised") =>
                    db' = db]_vars

\* a run that created the Manufacturer and the DeviceType and then failed
\* in ensure_device_role: no Device, Interface or IPAddress exists
C11_Witness ==
  \E w \in Workers :
    /\ task[w].pc = "raised"
    /\ LastStep(task[w]) = "ensure_device_role"
    /\ task[w].error = OnboardException("fail-config")
    /\ task[w].created = {"Manufacturer", "DeviceType"}
    /\ db.devices = << >>
    /\ db.ip_addresses = {}

\* C12: a run of ensure_device that follows a run which ended in fail-config,
\* for the same facts, binding and request and after the cause was removed,
\* succeeds and leaves the inventory that one uninterrupted run of
\* ensure_device with the creations allowed leaves: what the failed run
\* created is found and reused, what was missing is created.
Uninterrupted(t) ==
  ensure_device(CollectedTask(t.req, t.facts, t.mgmt_ifname, t.mgmt_pflen),
                InitialDb, AllCreate)

C12_RetryConverges ==
  \A w \in Workers :
    (task[w].attempt > 1 /\ Finished(task[w])
       /\ Uninterrupted(task[w]).t.pc = "done") =>
      /\ task[w].pc = "done"
      /\ db = Uninterrupted(task[w]).db

\* C13: when two runs at the same time both find a shared Manufacturer,
\* DeviceType or default DeviceRole missing and both go on to create it, one
\* entity with the key exists afterwards and the run whose create is
\* rejected ends with OnboardException fail-general.
CreateSteps == {"create_manufacturer", "create_device_type", "create_device_role"}

LostRace(t) == t.pc = "raised" /\ LastStep(t) \in CreateSteps

C13_RaceLoserFailGeneral ==
  /\ \A a, b \in db.device_types : a.slug = b.slug => a = b
  /\ \A w \in Workers :
       LostRace(task[w]) => task[w].error = OnboardException("fail-general")

\* C14: in every inventory the runs leave, also after a run for a management
\* IP that an earlier run onboarded under another hostname, device type,
\* role or site, an IPAddress is the primary IPv4 of one Device at most, and
\* a primary IPv4 reference is an IPAddress of the inventory.
PrimaryOf(d, address) == {i \in DOMAIN d.devices : d.devices[i].primary_ip4 = address}

C15_TypedFailures ==
  \A w \in Workers :
    task[w].pc = "raised" =>
      /\ task[w].error.type = "OnboardException"
      /\ task[w].error.reason \in REASONS

\* C16: a step adds a Manufacturer, DeviceType, DeviceRole or Platform only
\* under settings whose create_..._if_missing option for that kind is true;
\* a step that needs an entity which is missing while its option is false
\* raises (fail-config for Manufacturer, DeviceType and DeviceRole,
\* fail-general for Platform) and leaves the entities of that kind as they
\* were.
Leaves(w, step) == task[w].pc = step /\ task'[w].pc # step

FailsWith(w, reason) ==
  /\ task'[w].pc = "raised"
  /\ task'[w].raised = OnboardException(reason)

C16_CreationGated ==
  [][/\ db'.manufacturers # db.manufacturers => settings.create_manufacturer_if_missing
     /\ db'.device_types # db.device_types => settings.create_device_type_if_missing
     /\ db'.device_roles # db.device_roles => settings.create_device_role_if_missing
     /\ db'.platforms # db.platforms => settings.create_platform_if_missing
     /\ \A w \in Workers :
          /\ (/\ Leaves(w, "ensure_device_type")
              /\ task[w].vendor \notin db.manufacturers
              /\ ~settings.create_manufacturer_if_missing) =>
                /\ FailsWith(w, "fail-config")
                /\ db' = db
          /\ (/\ Leaves(w, "ensure_device_type")
              /\ task[w].vendor \in db.manufacturers
                   \/ settings.create_manufacturer_if_missing
              /\ DeviceTypesBySlug(db, sluggify(task[w].model)) = {}
              /\ ~settings.create_device_type_if_missing) =>
                /\ FailsWith(w, "fail-config")
                /\ db'.device_types = db.device_types
          /\ (/\ Leaves(w, "ensure_device_role")
              /\ task[w].ot_role = None
              /\ settings.default_device_role \notin db.device_roles
              /\ ~settings.create_device_role_if_missing) =>
                /\ FailsWith(w, "fail-config")
                /\ db' = db
          /\ (/\ Leaves(w, "get_platform_object")
              /\ ~PlatformExists(db, task[w].platform_name)
              /\ ~settings.create_platform_if_missing) =>
                /\ FailsWith(w, "fail-general")
                /\ db' = db]_vars

\* a run created the Manufacturer and then failed on the missing DeviceType
\* that it may not create
C16_Witness ==
  \E w \in Workers :
    /\ task[w].pc = "raised"
    /\ LastStep(task[w]) = "ensure_device_type"
    /\ task[w].error = OnboardException("fail-config")
    /\ "Manufacturer" \in task[w].created
    /\ ~settings.create_device_type_if_missing
    /\ db.device_types = {}

\* C17: after a run of ensure_device that succeeded, the run's Device has as
\* primary IPv4 the IPAddress management_ip/prefix_length, and that
\* IPAddress is bound to the management Interface of that Device, also when
\* the IPAddress was in the inventory before the run.
C17_PrimaryIpOnDevice ==
  \A w \in Workers :
    task[w].pc = "done" =>
      LET address == Cidr(task[w].req.ip_address, task[w].mgmt_pflen)
      IN  /\ db.devices[task[w].device].primary_ip4 = address
          /\ \E a \in db.ip_addresses :
               /\ a.address = address
               /\ a.interface \in DOMAIN db.interfaces
               /\ db.interfaces[a.interface].device = task[w].device
               /\ db.interfaces[a.interface].name = task[w].mgmt_ifname

C19_ProbeSocketClosed ==
  \A w \in Workers :
    task[w].probe # None => task[w].sock = "closed"

\* C20: after ensure_device_instance has succeeded, the Device with the
\* run's hostname, device type, role, platform and site has the serial
\* number of the facts, whatever serial it had; a Device was created exactly
\* when none had that 5-tuple; every other Device is as it was, and the
\* Device found has changed in its serial only.
C20_SerialOverwrite ==
  [][\A w \in Workers :
       (Leaves(w, "ensure_device_instance") /\ task'[w].pc # "raised") =>
         LET t == task[w]
             id == task'[w].device
             matching == DevicesMatching(db, t)
         IN  /\ id \in DOMAIN db'.devices
             /\ db'.devices[id].name = t.facts.hostname
             /\ db'.devices[id].device_type = t.device_type
             /\ db'.devices[id].device_role = t.ot_role
             /\ db'.devices[id].platform = t.req.platform
             /\ db'.devices[id].site = t.req.site
             /\ db'.devices[id].serial = t.facts.serial_number
             /\ (matching = {}) <=> (Len(db'.devices) = Len(db.devices) + 1)
             /\ (matching # {}) <=> (Len(db'.devices) = Len(db.devices))
             /\ matching # {} => id \in matching
             /\ \A i \in DOMAIN db.devices :
                  IF i = id
                    THEN db'.devices[i] = [db.devices[i] EXCEPT !.serial = t.facts.serial_number]
                    ELSE db'.devices[i] = db.devices[i]]_vars

\* a second task found the Device an earlier run onboarded and its serial is
\* the one of the second task's facts
C20_Witness ==
  \E w \in Workers :
    /\ task[w].pc = "ensure_interface"
    /\ submitted = 2
    /\ task[w].attempt = 1
    /\ "Device" \notin task[w].created
    /\ task[w].facts.serial_number = "SN2"
    /\ db.devices[task[w].device].serial = "SN2"
    /\ db.devices[task[w].device].primary_ip4 # NoAddress

====
